---------------------------- MODULE Spec2Model ----------------------------
(***************************************************************************)
(* A model of the gleam_finder crate (src/src/lib.rs): the substring scan  *)
(* primitives of string_tools, the two link discoverers google::search and *)
(* intermediary::resolve, the identifier normalizer gleam::get_gleam_id,   *)
(* the description decoder gleam::clear_description and the Giveaway       *)
(* operations fetch, fetch_vec and update.                                 *)
(*                                                                         *)
(* A Rust &str / String is a sequence of one-character strings.  All the   *)
(* markers of the crate are ASCII, so a byte offset of the code is a       *)
(* 0-based index into that sequence.  Option<T> is a sequence of length 0  *)
(* (None) or 1 (Some(v)).  The HTTP transport (minreq) is the environment: *)
(* a response is a transport failure, a body that is not UTF-8, or a body. *)
(***************************************************************************)
EXTENDS Integers, Sequences, FiniteSets, TLC

VARIABLES
    pc,            \* position of the running call
    text,          \* string_tools: the text argument
    begin,         \* string_tools: the begin marker
    end,           \* string_tools: the end marker
    strict,        \* result of get_all_between_strict (Option<&str>)
    loose,         \* result of get_all_between (&str)
    url,           \* the url argument of get_gleam_id / Giveaway::fetch
    id,            \* result of get_gleam_id(url)
    canon,         \* format!("https://gleam.io/{}/-", id)
    id2,           \* result of get_gleam_id(canon)
    self,          \* the Giveaway a caller holds (Option<Giveaway>)
    response,      \* what minreq::get(..).send() / as_str() gave
    fetched,       \* result of the last Giveaway::fetch (Option<Giveaway>)
    now,           \* SystemTime::now() in seconds
    op,            \* the Giveaway operation that ran last
    urls,          \* fetch_vec: the urls argument
    cooldown,      \* fetch_vec: the cooldown argument, in seconds
    next_url,      \* fetch_vec: 0-based position of the for loop
    giveaways,     \* fetch_vec: the vector being built
    events,        \* fetch_vec: the fetch attempts and sleeps, in order
    which,         \* the discoverer running: "search" or "resolve"
    body,          \* discoverers: the remaining body (let mut body)
    rep,           \* discoverers: the vector rep
    ret,           \* discoverers: the returned vector (Option: set on return)
    returned,      \* what the caller got so far: <<outcome, vector>> pairs
    input,         \* clear_description: the description passed in
    description,   \* clear_description: the String being rewritten
    resolved       \* clear_description: numeric references replaced so far

strVars  == <<text, begin, end, strict, loose>>
idVars   == <<url, id, canon, id2>>
gwVars   == <<self, response, fetched, now, op>>
fvVars   == <<urls, cooldown, next_url, giveaways, events>>
linkVars == <<which, body, rep, ret, returned>>
cdVars   == <<input, description, resolved>>
vars == <<pc, strVars, idVars, gwVars, fvVars, linkVars, cdVars>>

----------------------------------------------------------------------------
(* Option<T> and slices *)

None == <<>>
Some(v) == <<v>>
IsSome(o) == o # <<>>
Unwrap(o) == o[1]

\* &text[a..b] with 0-based offsets a <= b
Slice(s, a, b) == SubSeq(s, a + 1, b)

\* &text[a..]
SliceFrom(s, a) == SubSeq(s, a + 1, Len(s))

SeqsUpTo(S, n) == UNION {[1..k -> S] : k \in 0..n}

RECURSIVE Concat(_)
Concat(ss) == IF ss = <<>> THEN <<>> ELSE Head(ss) \o Concat(Tail(ss))

----------------------------------------------------------------------------
(* str::find, as string_tools uses it: the 0-based offset of the leftmost *)
(* occurrence of pat in s; the empty pattern is found at offset 0.        *)

\* the offsets at which pat matches
matches(s, pat) ==
    {i \in 0..(Len(s) - Len(pat)) : Slice(s, i, i + Len(pat)) = pat}

find(s, pat) ==
    LET m == matches(s, pat) IN
    IF m = {} THEN None
    ELSE Some(CHOOSE i \in m : \A j \in m : i <= j)

----------------------------------------------------------------------------
(* mod string_tools *)

get_all_before_strict(t, b) ==
    LET f == find(t, b) IN
    IF f = None THEN None ELSE Some(Slice(t, 0, Unwrap(f)))

get_all_after_strict_from_marker(t, e) ==
    LET f == find(t, e) IN
    IF f = None THEN None ELSE Some(SliceFrom(t, Unwrap(f)))

get_all_after_strict(t, e) ==
    LET f == find(t, e) IN
    IF f = None THEN None ELSE Some(SliceFrom(t, Unwrap(f) + Len(e)))

get_idx_before_strict(t, b) == find(t, b)

get_idx_before(t, b) ==
    LET f == find(t, b) IN
    IF f # None THEN Unwrap(f) ELSE Len(t)

get_idx_after_strict(t, e) ==
    LET f == find(t, e) IN
    IF f = None THEN None ELSE Some(Unwrap(f) + Len(e))

get_all_between_strict(t, b, e) ==
    LET t1 == get_all_after_strict(t, b) IN
    IF t1 = None THEN None
    ELSE get_all_before_strict(Unwrap(t1), e)

\* Some(<<after, before>>) stands for Some((after, after + before))
get_idx_between_strict(t, b, e) ==
    LET after == get_idx_after_strict(t, b) IN
    IF after = None THEN None
    ELSE LET before == get_idx_before_strict(SliceFrom(t, Unwrap(after)), e) IN
         IF before = None THEN None
         ELSE Some(<<Unwrap(after), Unwrap(after) + Unwrap(before)>>)

get_all_before_or_empty(t, b) ==
    LET f == find(t, b) IN
    IF f = None THEN <<>> ELSE Slice(t, 0, Unwrap(f))

get_all_before(t, b) ==
    LET f == find(t, b) IN
    Slice(t, 0, IF f = None THEN Len(t) ELSE Unwrap(f))

get_all_after(t, e) ==
    LET f == find(t, e) IN
    IF f # None THEN SliceFrom(t, Unwrap(f) + Len(e)) ELSE <<>>

get_all_between(t, b, e) ==
    get_all_before(get_all_after(t, b), e)

is_ascii_alphanumeric(c) ==
    c \in {"0", "1", "2", "3", "4", "5", "6", "7", "8", "9",
           "a", "b", "c", "d", "e", "f", "g", "h", "i", "j", "k", "l", "m",
           "n", "o", "p", "q", "r", "s", "t", "u", "v", "w", "x", "y", "z",
           "A", "B", "C", "D", "E", "F", "G", "H", "I", "J", "K", "L", "M",
           "N", "O", "P", "Q", "R", "S", "T", "U", "V", "W", "X", "Y", "Z"}

\* the characters get_url keeps
is_url_char(c) == is_ascii_alphanumeric(c) \/ c \in {"-", "/", "_"}

\* the value of i when the for loop of get_url ends: the offset of the
\* first character that breaks it, or the length of url
get_url_len(u) ==
    LET breaks == {i \in 0..(Len(u) - 1) : ~is_url_char(u[i + 1])} IN
    IF breaks = {} THEN Len(u)
    ELSE CHOOSE i \in breaks : \A j \in breaks : i <= j

get_url(u) == Slice(u, 0, get_url_len(u))

----------------------------------------------------------------------------
(* gleam::get_gleam_id and the canonical url *)

GLEAM_ROOT ==
    <<"h", "t", "t", "p", "s", ":", "/", "/", "g", "l", "e", "a", "m", ".", "i", "o", "/">>
COMPETITIONS_ROOT ==
    <<"h", "t", "t", "p", "s", ":", "/", "/", "g", "l", "e", "a", "m", ".", "i", "o", "/",
      "c", "o", "m", "p", "e", "t", "i", "t", "i", "o", "n", "s", "/">>

\* get_gleam_id with the second shape asking for more than "<root><code>/-"
get_gleam_id_long_slug(u) ==
    IF Len(u) = 37 /\ Slice(u, 0, 30) = COMPETITIONS_ROOT
    THEN Some(Slice(u, 30, 35))
    ELSE IF Len(u) > 24 /\ Slice(u, 0, 17) = GLEAM_ROOT /\ Slice(u, 22, 23) = <<"/">>
    THEN Some(Slice(u, 17, 22))
    ELSE None

get_gleam_id(u) ==
    IF Len(u) = 37 /\ Slice(u, 0, 30) = COMPETITIONS_ROOT
    THEN Some(Slice(u, 30, 35))
    ELSE IF Len(u) >= 23 /\ Slice(u, 0, 17) = GLEAM_ROOT /\ Slice(u, 22, 23) = <<"/">>
    THEN Some(Slice(u, 17, 22))
    ELSE None

\* format!("https://gleam.io/{}/-", id)
canonical_url(c) == GLEAM_ROOT \o c \o <<"/", "-">>

----------------------------------------------------------------------------
(* str::parse::<u32>, str::parse::<u64> and char::from_u32.  A parsed     *)
(* integer is kept as its decimal digits without leading zeros, so that   *)
(* no width of the checker stands in for the width of u32 or u64.         *)

Digits == <<"0", "1", "2", "3", "4", "5", "6", "7", "8", "9">>
is_digit(c) == \E i \in 1..Len(Digits) : Digits[i] = c
digit_value(c) == (CHOOSE i \in 1..Len(Digits) : Digits[i] = c) - 1

RECURSIVE strip_zeros(_)
strip_zeros(d) ==
    IF Len(d) > 1 /\ d[1] = "0" THEN strip_zeros(Tail(d)) ELSE d

\* a <= b for two digit strings of the same length
RECURSIVE digits_leq(_, _)
digits_leq(a, b) ==
    IF a = <<>> THEN TRUE
    ELSE IF digit_value(a[1]) # digit_value(b[1])
         THEN digit_value(a[1]) < digit_value(b[1])
         ELSE digits_leq(Tail(a), Tail(b))

U32_MAX == <<"4", "2", "9", "4", "9", "6", "7", "2", "9", "5">>
U64_MAX ==
    <<"1", "8", "4", "4", "6", "7", "4", "4", "0", "7",
      "3", "7", "0", "9", "5", "5", "1", "6", "1", "5">>

\* from_str_radix(src, 10) of an unsigned type: an optional '+', then one
\* or more ASCII digits, the value no more than max
parse_unsigned(s, max) ==
    LET d == IF s # <<>> /\ s[1] = "+" THEN Tail(s) ELSE s IN
    IF d = <<>> \/ (\E i \in 1..Len(d) : ~is_digit(d[i])) THEN None
    ELSE LET z == strip_zeros(d) IN
         IF Len(z) < Len(max) \/ (Len(z) = Len(max) /\ digits_leq(z, max))
         THEN Some(z)
         ELSE None

parse_u32(s) == parse_unsigned(s, U32_MAX)
parse_u64(s) == parse_unsigned(s, U64_MAX)

RECURSIVE dec_value(_)
dec_value(z) ==
    IF z = <<>> THEN 0
    ELSE dec_value(SubSeq(z, 1, Len(z) - 1)) * 10 + digit_value(z[Len(z)])

\* the printable ASCII characters of codes 32..95 and 97..126
AsciiLow ==
    <<" ", "!", "\"", "#", "$", "%", "&", "'", "(", ")", "*", "+", ",", "-", ".", "/",
      "0", "1", "2", "3", "4", "5", "6", "7", "8", "9", ":", ";", "<", "=", ">", "?",
      "@", "A", "B", "C", "D", "E", "F", "G", "H", "I", "J", "K", "L", "M", "N", "O",
      "P", "Q", "R", "S", "T", "U", "V", "W", "X", "Y", "Z", "[", "\\", "]", "^", "_">>
AsciiHigh ==
    <<"a", "b", "c", "d", "e", "f", "g", "h", "i", "j", "k", "l", "m", "n", "o",
      "p", "q", "r", "s", "t", "u", "v", "w", "x", "y", "z", "{", "|", "}", "~">>

\* the character of a code point: itself when it is one of the characters
\* above, and a string naming the code point otherwise
character_of(code) ==
    IF code >= 32 /\ code <= 95 THEN AsciiLow[code - 31]
    ELSE IF code >= 97 /\ code <= 126 THEN AsciiHigh[code - 96]
    ELSE "U+" \o ToString(code)

\* char::from_u32 on a parsed u32: None above 0x10FFFF and for the
\* surrogates 0xD800..0xDFFF
from_u32(z) ==
    IF Len(z) > 7 THEN None
    ELSE LET code == dec_value(z) IN
         IF code > 1114111 \/ (code >= 55296 /\ code <= 57343) THEN None
         ELSE Some(character_of(code))

----------------------------------------------------------------------------
(* gleam::clear_description, one loop iteration at a time *)

TAG_OPEN == <<"\\", "u", "0", "0", "3", "c">>
TAG_CLOSE == <<"\\", "u", "0", "0", "3", "e">>
TAG_PREFIX == <<"\\", "u", "0", "0", "3">>
APOS_ENTITY == <<"&", "#", "3", "9", ";">>
NUMREF_OPEN == <<"\\", "u", "0", "0", "2", "6", "#">>
SEMICOLON == <<";">>

\* the condition of the first while loop
tag_span(d) == get_idx_between_strict(d, TAG_OPEN, TAG_CLOSE)

\* its body: drop the span and both of its six-character delimiters
strip_tag(d) ==
    LET x == Unwrap(tag_span(d))[1]
        x2 == Unwrap(tag_span(d))[2]
    IN  Slice(d, 0, x - 6) \o SliceFrom(d, x2 + 6)

\* the truncation left out
truncate_nothing(d) == d

\* description[..get_idx_before(description, TAG_PREFIX)]
truncate(d) == Slice(d, 0, get_idx_before(d, TAG_PREFIX))

\* the body of the second loop: five removes and one insert at idx
replace_apostrophe(d) ==
    LET idx == Unwrap(find(d, APOS_ENTITY)) IN
    Slice(d, 0, idx) \o <<"'">> \o SliceFrom(d, idx + 5)

\* the character the third loop puts in, if its three conditions hold
reference_character(d) ==
    LET value == get_all_between_strict(d, NUMREF_OPEN, SEMICOLON) IN
    IF value = None THEN None
    ELSE LET charcode == parse_u32(Unwrap(value)) IN
         IF charcode = None THEN None
         ELSE from_u32(Unwrap(charcode))

\* description.replace_range(range.0-7..range.1+1, &character.to_string())
replace_reference(d) ==
    LET range == Unwrap(get_idx_between_strict(d, NUMREF_OPEN, SEMICOLON)) IN
    Slice(d, 0, range[1] - 7)
        \o <<Unwrap(reference_character(d))>>
        \o SliceFrom(d, range[2] + 1)

\* the three loops run to their end, and the whole function
RECURSIVE strip_tags(_)
strip_tags(d) == IF tag_span(d) = None THEN d ELSE strip_tags(strip_tag(d))

RECURSIVE replace_apostrophes(_)
replace_apostrophes(d) ==
    IF find(d, APOS_ENTITY) = None THEN d
    ELSE replace_apostrophes(replace_apostrophe(d))

RECURSIVE resolve_references(_)
resolve_references(d) ==
    IF reference_character(d) = None THEN d
    ELSE resolve_references(replace_reference(d))

clear_description(d) ==
    resolve_references(replace_apostrophes(truncate(strip_tags(d))))

----------------------------------------------------------------------------
(* gleam::Giveaway: fetch, get_url, update.  The response argument is what *)
(* the request to the canonical url gave: kind "transport_error" (send()   *)
(* is Err), "not_utf8" (as_str() is Err) or "body" with the page text.     *)

STARTS_AT ==
    <<"s", "t", "a", "r", "t", "s", "_", "a", "t", "&", "q", "u", "o", "t", ";", ":">>
ENDS_AT ==
    <<"e", "n", "d", "s", "_", "a", "t", "&", "q", "u", "o", "t", ";", ":">>
COMMA_QUOT == <<",", "&", "q", "u", "o", "t", ";">>
INIT_ENTRY_COUNT ==
    <<"i", "n", "i", "t", "E", "n", "t", "r", "y", "C", "o", "u", "n", "t", "(">>
CLOSE_PAREN == <<")">>
NAME_KEY ==
    <<"n", "a", "m", "e", "&", "q", "u", "o", "t", ";", ":", "&", "q", "u", "o", "t", ";">>
DESCRIPTION_KEY ==
    <<"d", "e", "s", "c", "r", "i", "p", "t", "i", "o", "n",
      "&", "q", "u", "o", "t", ";", ":", "&", "q", "u", "o", "t", ";">>
QUOT == <<"&", "q", "u", "o", "t", ";">>

TransportError == [kind |-> "transport_error", body |-> <<>>]
NotUtf8 == [kind |-> "not_utf8", body |-> <<>>]
Body(b) == [kind |-> "body", body |-> b]

\* the entry count of a page: Some(n) when the marker is there and its
\* content parses, None otherwise
entry_count_of(b) ==
    LET entry_count == get_all_between_strict(b, INIT_ENTRY_COUNT, CLOSE_PAREN) IN
    IF IsSome(entry_count) THEN parse_u64(Unwrap(entry_count)) ELSE None

\* the part of fetch that reads the body, given the id and the time
parse_page(giveaway_id, b, t) ==
    LET starts == get_all_between_strict(b, STARTS_AT, COMMA_QUOT)
        ends == get_all_between_strict(b, ENDS_AT, COMMA_QUOT)
        name == get_all_between_strict(b, NAME_KEY, QUOT)
        descr == get_all_between_strict(b, DESCRIPTION_KEY, QUOT)
    IN
    IF starts = None THEN None
    ELSE IF parse_u64(Unwrap(starts)) = None THEN None
    ELSE IF ends = None THEN None
    ELSE IF parse_u64(Unwrap(ends)) = None THEN None
    ELSE IF name = None THEN None
    ELSE IF descr = None THEN None
    ELSE Some([gleam_id |-> giveaway_id,
               description |-> clear_description(Unwrap(descr)),
               entry_count |-> entry_count_of(b),
               start_date |-> Unwrap(parse_u64(Unwrap(starts))),
               end_date |-> Unwrap(parse_u64(Unwrap(ends))),
               update_date |-> t,
               name |-> Unwrap(name)])

\* fetch with the entry count read like the dates: its absence fails
fetch_entry_count_required(u, resp, t) ==
    LET giveaway_id == get_gleam_id(u) IN
    IF giveaway_id = None THEN None
    ELSE IF resp.kind # "body" THEN None
    ELSE IF entry_count_of(resp.body) = None THEN None
    ELSE parse_page(Unwrap(giveaway_id), resp.body, t)

\* Giveaway::fetch(url), resp being the answer to the request and t the
\* time
fetch(u, resp, t) ==
    LET giveaway_id == get_gleam_id(u) IN
    IF giveaway_id = None THEN None
    ELSE IF resp.kind # "body" THEN None
    ELSE parse_page(Unwrap(giveaway_id), resp.body, t)

\* Giveaway::get_url(&self)
giveaway_get_url(g) == canonical_url(g.gleam_id)

\* update that stamps the record also when the fetch failed
update_touching(g, resp, t) ==
    LET giveaway == fetch(giveaway_get_url(g), resp, t) IN
    IF IsSome(giveaway) THEN Unwrap(giveaway)
    ELSE [g EXCEPT !.update_date = t]

\* Giveaway::update(&mut self): the new value of *self
update(g, resp, t) ==
    LET giveaway == fetch(giveaway_get_url(g), resp, t) IN
    IF IsSome(giveaway) THEN Unwrap(giveaway) ELSE g

----------------------------------------------------------------------------
(* intermediary::resolve and google::search, the parts between the loops  *)

HREF_OPEN ==
    <<"\"", "r", "\"", ">", "<", "a", " ", "h", "r", "e", "f", "=", "\"">>
HREF_CLOSE ==
    <<"\"", " ", "o", "n", "m", "o", "u", "s", "e", "d", "o", "w", "n", "=", "\"",
      "r", "e", "t", "u", "r", "n", " ", "r", "w", "t", "(">>

\* resolve: the url of one iteration, get_url(get_all_after(&body, ...))
embedded_path(b) == get_url(get_all_after(b, GLEAM_ROOT))

\* resolve: the url with its path cut to 20 characters
capped_url(u) ==
    IF Len(u) >= 20 THEN GLEAM_ROOT \o Slice(u, 0, 20) ELSE GLEAM_ROOT \o u

\* if !rep.contains(&url) { rep.push(url); }
push_unique(r, u) ==
    IF \E i \in 1..Len(r) : r[i] = u THEN r ELSE Append(r, u)

\* resolve: the for loop that builds final_rep
RECURSIVE final_rep(_)
final_rep(r) ==
    IF r = <<>> THEN <<>>
    ELSE LET gid == get_gleam_id(Head(r)) IN
         (IF IsSome(gid) THEN <<canonical_url(Unwrap(gid))>> ELSE <<>>)
             \o final_rep(Tail(r))

\* search: the url of one iteration
result_url(b) == get_all_between_strict(b, HREF_OPEN, HREF_CLOSE)

----------------------------------------------------------------------------
(* Each specification below runs one part of the crate; the variables of  *)
(* the other parts stay at these values.                                   *)

IdleStr  == text = <<>> /\ begin = <<>> /\ end = <<>> /\ strict = None /\ loose = <<>>
IdleId   == url = <<>> /\ id = None /\ canon = <<>> /\ id2 = None
IdleGw   == self = None /\ response = [kind |-> "none", body |-> <<>>] /\ fetched = None
            /\ now = 0 /\ op = "none"
IdleFv   == urls = <<>> /\ cooldown = 0 /\ next_url = 0 /\ giveaways = <<>> /\ events = <<>>
IdleLink == which = "none" /\ body = <<>> /\ rep = <<>> /\ ret = None
            /\ returned = {}
IdleCd   == input = <<>> /\ description = <<>> /\ resolved = 0

----------------------------------------------------------------------------
(* Specification SpecStr: get_all_between_strict and get_all_between on   *)
(* every text and pair of markers over a two-letter alphabet.             *)

MaxTextLen == 4
MaxMarkerLen == 2
StrAlphabet == {"a", "b"}

InitStr ==
    /\ pc = "input"
    /\ text \in SeqsUpTo(StrAlphabet, MaxTextLen)
    /\ begin \in SeqsUpTo(StrAlphabet, MaxMarkerLen)
    /\ end \in SeqsUpTo(StrAlphabet, MaxMarkerLen)
    /\ strict = None /\ loose = <<>>
    /\ IdleId /\ IdleGw /\ IdleFv /\ IdleLink /\ IdleCd

CallBetweenStrict ==
    /\ pc = "input"
    /\ strict' = get_all_between_strict(text, begin, end)
    /\ pc' = "strict"
    /\ UNCHANGED <<text, begin, end, loose>>
    /\ UNCHANGED <<idVars, gwVars, fvVars, linkVars, cdVars>>

CallBetween ==
    /\ pc = "input"
    /\ loose' = get_all_between(text, begin, end)
    /\ pc' = "between"
    /\ UNCHANGED <<text, begin, end, strict>>
    /\ UNCHANGED <<idVars, gwVars, fvVars, linkVars, cdVars>>

NextStr == CallBetweenStrict \/ CallBetween

SpecStr == InitStr /\ [][NextStr]_vars

(* The occurrences of a marker, stated without the scan of find. *)
OccursAt(t, p, i) == i + Len(p) <= Len(t) /\ Slice(t, i, i + Len(p)) = p
Occurs(t, p) == \E i \in 0..Len(t) : OccursAt(t, p, i)
FirstOcc(t, p) ==
    CHOOSE i \in 0..Len(t) :
        OccursAt(t, p, i) /\ \A j \in 0..(i - 1) : ~OccursAt(t, p, j)
\* the part of t after the end of the first occurrence of p
RestAfter(t, p) == SliceFrom(t, FirstOcc(t, p) + Len(p))

\* C1: when begin occurs in text and end occurs after the end of the first
\* begin, get_all_between_strict returns exactly the text between the first
\* begin and the first end that follows it; otherwise it returns None.
C1_BetweenStrictExact ==
    pc = "strict" =>
        IF Occurs(text, begin) /\ Occurs(RestAfter(text, begin), end)
        THEN LET from == FirstOcc(text, begin) + Len(begin)
                 to == from + FirstOcc(RestAfter(text, begin), end)
             IN  strict = Some(Slice(text, from, to))
        ELSE strict = None

\* C1 witness: a text holding begin twice and end after it, with a
\* non-empty result.
C1_Witness ==
    /\ pc = "strict"
    /\ begin # <<>> /\ end # <<>>
    /\ Occurs(text, begin)
    /\ Occurs(RestAfter(text, begin), begin)
    /\ IsSome(strict) /\ Unwrap(strict) # <<>>

\* C2 as stated: get_all_between returns the empty text whenever begin is
\* absent from text or end is absent from text.
C2_EmptyWhenEitherAbsent ==
    pc = "between" =>
        ((~Occurs(text, begin) \/ ~Occurs(text, end)) => loose = <<>>)

\* C2 amended: get_all_between returns the empty text whenever begin is
\* absent; when begin is present and end does not occur after the first
\* begin, it returns the whole text after the first begin.
C2_EmptyOnlyWhenBeginAbsent ==
    pc = "between" =>
        /\ ~Occurs(text, begin) => loose = <<>>
        /\ (Occurs(text, begin) /\ ~Occurs(RestAfter(text, begin), end))
               => loose = RestAfter(text, begin)

\* C2 witness: begin present, end absent from the whole text, and a
\* non-empty result.
C2_Witness ==
    /\ pc = "between"
    /\ Occurs(text, begin) /\ ~Occurs(text, end)
    /\ loose # <<>>

----------------------------------------------------------------------------
(* Specification SpecId: a url is normalized (as Giveaway::fetch does on  *)
(* entry) and the canonical url built from its id is normalized again (as *)
(* Giveaway::update does when it fetches get_url()).                      *)

MaxTail == 7
IdAlphabet == {"a", "/"}

\* 30 characters like COMPETITIONS_ROOT, with a '/' at offset 22
NEAR_COMPETITIONS_ROOT ==
    <<"h", "t", "t", "p", "s", ":", "/", "/", "g", "l", "e", "a", "m", ".", "i", "o", "/",
      "c", "o", "m", "p", "e", "/", "i", "t", "i", "o", "n", "s", "/">>
\* 17 characters like GLEAM_ROOT, another host
OTHER_ROOT ==
    <<"h", "t", "t", "p", "s", ":", "/", "/", "g", "l", "e", "a", "m", ".", "c", "o", "/">>

IdUrls ==
    {p \o t : p \in {GLEAM_ROOT, COMPETITIONS_ROOT, NEAR_COMPETITIONS_ROOT, OTHER_ROOT},
              t \in SeqsUpTo(IdAlphabet, MaxTail)}

InitId ==
    /\ pc = "input"
    /\ url \in IdUrls
    /\ id = None /\ canon = <<>> /\ id2 = None
    /\ IdleStr /\ IdleGw /\ IdleFv /\ IdleLink /\ IdleCd

Normalize ==
    /\ pc = "input"
    /\ id' = get_gleam_id(url)
    /\ pc' = "normalized"
    /\ UNCHANGED <<url, canon, id2>>
    /\ UNCHANGED <<strVars, gwVars, fvVars, linkVars, cdVars>>

Renormalize ==
    /\ pc = "normalized"
    /\ IsSome(id)
    /\ canon' = canonical_url(Unwrap(id))
    /\ id2' = get_gleam_id(canon')
    /\ pc' = "done"
    /\ UNCHANGED <<url, id>>
    /\ UNCHANGED <<strVars, gwVars, fvVars, linkVars, cdVars>>

NextId == Normalize \/ Renormalize

SpecId == InitId /\ [][NextId]_vars

\* C3: for every url that get_gleam_id accepts with id c, the canonical url
\* "https://gleam.io/" + c + "/-" is accepted too and yields the same id c.
C3_CanonicalRoundTrip ==
    pc = "done" => (IsSome(id2) /\ id2 = id)

\* C3 witness: a url of the first shape (37 characters under
\* /competitions/) was normalized and its canonical url normalized again.
C3_Witness ==
    /\ pc = "done"
    /\ Len(url) = 37 /\ Slice(url, 0, 30) = COMPETITIONS_ROOT
    /\ id = Some(Slice(url, 30, 35))
    /\ canon # url

----------------------------------------------------------------------------
(* Specification SpecDesc: clear_description on every description made of *)
(* up to MaxPieces pieces: tag markers, the numeric reference marker, the *)
(* apostrophe entity, codes and text.                                     *)

MaxPieces == 4

DescPieces ==
    {TAG_OPEN, TAG_CLOSE, NUMREF_OPEN, APOS_ENTITY, SEMICOLON,
     <<"9", "2">>, <<"5", "5", "2", "9", "6">>, <<"u", "0", "0", "3", "c">>}

Descriptions == {Concat(ps) : ps \in SeqsUpTo(DescPieces, MaxPieces)}

InitDesc ==
    /\ pc = "tags"
    /\ input \in Descriptions
    /\ description = input
    /\ resolved = 0
    /\ IdleStr /\ IdleId /\ IdleGw /\ IdleFv /\ IdleLink

StripTag ==
    /\ pc = "tags"
    /\ IsSome(tag_span(description))
    /\ description' = strip_tag(description)
    /\ UNCHANGED <<pc, input, resolved>>
    /\ UNCHANGED <<strVars, idVars, gwVars, fvVars, linkVars>>

Truncate ==
    /\ pc = "tags"
    /\ tag_span(description) = None
    /\ description' = truncate(description)
    /\ pc' = "apostrophes"
    /\ UNCHANGED <<input, resolved>>
    /\ UNCHANGED <<strVars, idVars, gwVars, fvVars, linkVars>>

ReplaceApostrophe ==
    /\ pc = "apostrophes"
    /\ IsSome(find(description, APOS_ENTITY))
    /\ description' = replace_apostrophe(description)
    /\ UNCHANGED <<pc, input, resolved>>
    /\ UNCHANGED <<strVars, idVars, gwVars, fvVars, linkVars>>

ApostrophesDone ==
    /\ pc = "apostrophes"
    /\ find(description, APOS_ENTITY) = None
    /\ pc' = "references"
    /\ UNCHANGED <<input, description, resolved>>
    /\ UNCHANGED <<strVars, idVars, gwVars, fvVars, linkVars>>

ResolveReference ==
    /\ pc = "references"
    /\ IsSome(reference_character(description))
    /\ description' = replace_reference(description)
    /\ resolved' = resolved + 1
    /\ UNCHANGED <<pc, input>>
    /\ UNCHANGED <<strVars, idVars, gwVars, fvVars, linkVars>>

\* no reference left, or a break
ReferencesDone ==
    /\ pc = "references"
    /\ reference_character(description) = None
    /\ pc' = "done"
    /\ UNCHANGED <<input, description, resolved>>
    /\ UNCHANGED <<strVars, idVars, gwVars, fvVars, linkVars>>

NextDesc ==
    \/ StripTag \/ Truncate \/ ReplaceApostrophe \/ ApostrophesDone
    \/ ResolveReference \/ ReferencesDone

SpecDesc == InitDesc /\ [][NextDesc]_vars

NoResidualToken(d) == ~Occurs(d, TAG_PREFIX) /\ ~Occurs(d, APOS_ENTITY)

StageRank(p) ==
    CASE p = "tags" -> 0
      [] p = "apostrophes" -> 1
      [] p = "references" -> 2
      [] OTHER -> 3

\* C10 as stated: the result of clear_description contains no TAG_PREFIX and no
\* APOS_ENTITY, also when numeric references were resolved.
C10_ResultHasNoResidualToken ==
    pc = "done" => NoResidualToken(description)

\* C10 amended: clear_description terminates (every step moves to a later
\* stage or shortens the description), and the description holds no TAG_PREFIX
\* and no APOS_ENTITY when the numeric reference step starts, hence in the
\* result whenever no numeric reference was resolved.
C10_NoResidualTokenUnlessResolved ==
    /\ []((pc \in {"references", "done"} /\ resolved = 0)
            => NoResidualToken(description))
    /\ [][\/ StageRank(pc') > StageRank(pc)
          \/ (pc' = pc /\ Len(description') < Len(description))]_vars

\* C10 witness: a description with a tag, a dangling TAG_PREFIX or an
\* apostrophe entity was decoded to a non-empty result with no reference
\* resolved.
C10_Witness ==
    /\ pc = "done" /\ resolved = 0
    /\ Occurs(input, TAG_OPEN) /\ Occurs(input, APOS_ENTITY)
    /\ description # <<>> /\ description # input

----------------------------------------------------------------------------
(* Specification SpecGiveaway: a caller fetches a giveaway and, once it   *)
(* holds one, updates it again and again while time passes; every request *)
(* gets any of the responses below.                                       *)

MaxNow == 2

NAME_OK == NAME_KEY \o <<"n">> \o QUOT
START_OK == STARTS_AT \o <<"1", "2">> \o COMMA_QUOT
END_OK == ENDS_AT \o <<"3", "4">> \o COMMA_QUOT
DESCRIPTION_OK ==
    DESCRIPTION_KEY \o TAG_OPEN \o <<"b">> \o TAG_CLOSE \o <<"d">> \o APOS_ENTITY \o QUOT
ENTRY_OK == INIT_ENTRY_COUNT \o <<"7">> \o CLOSE_PAREN

\* every field there or not, the entry count also with a content that is
\* no integer
PagesByPresence ==
    {n \o s \o e \o d \o c :
        n \in {<<>>, NAME_OK}, s \in {<<>>, START_OK}, e \in {<<>>, END_OK},
        d \in {<<>>, DESCRIPTION_OK},
        c \in {<<>>, ENTRY_OK,
               INIT_ENTRY_COUNT \o <<"m", "a", "n", "y">> \o CLOSE_PAREN}}

\* a start date that is no integer, a start date with no closing marker of
\* its own, an empty end date, a description without markup
PagesByContent ==
    {NAME_OK \o STARTS_AT \o <<"x">> \o COMMA_QUOT \o END_OK \o DESCRIPTION_OK \o ENTRY_OK,
     NAME_OK \o STARTS_AT \o <<"1", "2">> \o END_OK \o DESCRIPTION_OK \o ENTRY_OK,
     NAME_OK \o START_OK \o ENDS_AT \o COMMA_QUOT \o DESCRIPTION_OK \o ENTRY_OK,
     NAME_OK \o START_OK \o END_OK \o DESCRIPTION_KEY \o <<"d">> \o QUOT \o ENTRY_OK}

Pages == PagesByPresence \cup PagesByContent

Responses == {TransportError, NotUtf8} \cup {Body(b) : b \in Pages}

FetchUrls ==
    {GLEAM_ROOT \o <<"2", "z", "A", "s", "X", "/", "b", "i", "t">>,
     COMPETITIONS_ROOT \o <<"l", "S", "q", "1", "Q", "-", "s">>,
     GLEAM_ROOT \o <<"2", "z", "A", "s", "X">>}

InitGiveaway ==
    /\ pc = "caller"
    /\ self = None /\ fetched = None
    /\ response = [kind |-> "none", body |-> <<>>]
    /\ now = 0 /\ op = "none"
    /\ url = <<>> /\ id = None /\ canon = <<>> /\ id2 = None
    /\ IdleStr /\ IdleFv /\ IdleLink /\ IdleCd

\* let giveaway = Giveaway::fetch(u)
FetchCall ==
    /\ self = None
    /\ \E u \in FetchUrls, r \in Responses :
        /\ url' = u
        /\ response' = r
        /\ fetched' = fetch(u, r, now)
        /\ self' = fetched'
    /\ op' = "fetch"
    /\ UNCHANGED <<pc, now, id, canon, id2>>
    /\ UNCHANGED <<strVars, fvVars, linkVars, cdVars>>

\* giveaway.update()
UpdateCall ==
    /\ IsSome(self)
    /\ \E r \in Responses :
        /\ url' = giveaway_get_url(Unwrap(self))
        /\ response' = r
        /\ fetched' = fetch(url', r, now)
        /\ self' = Some(update(Unwrap(self), r, now))
    /\ op' = "update"
    /\ UNCHANGED <<pc, now, id, canon, id2>>
    /\ UNCHANGED <<strVars, fvVars, linkVars, cdVars>>

Tick ==
    /\ now < MaxNow
    /\ now' = now + 1
    /\ UNCHANGED <<pc, self, response, fetched, op, url, id, canon, id2>>
    /\ UNCHANGED <<strVars, fvVars, linkVars, cdVars>>

NextGiveaway == FetchCall \/ UpdateCall \/ Tick

SpecGiveaway == InitGiveaway /\ [][NextGiveaway]_vars

(* What a page holds, stated with the occurrences of the markers. *)
FieldFound(b, key, close) == Occurs(b, key) /\ Occurs(RestAfter(b, key), close)
FieldText(b, key, close) ==
    Slice(RestAfter(b, key), 0, FirstOcc(RestAfter(b, key), close))
DateFound(b, key) ==
    FieldFound(b, key, COMMA_QUOT) /\ IsSome(parse_u64(FieldText(b, key, COMMA_QUOT)))
RequiredFieldsFound(b) ==
    /\ DateFound(b, STARTS_AT) /\ DateFound(b, ENDS_AT)
    /\ FieldFound(b, NAME_KEY, QUOT) /\ FieldFound(b, DESCRIPTION_KEY, QUOT)
EntryCountFound(b) ==
    /\ FieldFound(b, INIT_ENTRY_COUNT, CLOSE_PAREN)
    /\ IsSome(parse_u64(FieldText(b, INIT_ENTRY_COUNT, CLOSE_PAREN)))
FetchFails(r) == r.kind # "body" \/ ~RequiredFieldsFound(r.body)

\* C4: an update whose fetch fails (transport failure, undecodable body or
\* a page lacking a required field) leaves every field of the record as
\* it was; an update whose fetch succeeds replaces the record by the
\* fetched one.
C4_FailedUpdateKeepsRecord ==
    [][op' = "update" =>
          IF FetchFails(response')
          THEN self' = self
          ELSE IsSome(fetched') /\ self' = fetched']_vars

\* C4 witness: a record fetched earlier went through an update whose page
\* lacked a required field, at a later time, and is still held.
C4_Witness ==
    /\ op = "update"
    /\ response.kind = "body" /\ ~RequiredFieldsFound(response.body)
    /\ IsSome(self) /\ Unwrap(self).update_date < now

\* C5: fetch returns a record exactly when the url is accepted, a body came
\* back and start date, end date, name and description were all found, the
\* dates parsing as integers; the record then holds these fields, and its
\* entry_count is the parsed initEntryCount content, or absent when that
\* marker is missing or its content is not an integer.
C5_RecordIffRequiredFields ==
    op \in {"fetch", "update"} =>
        /\ IsSome(fetched) <=>
              /\ IsSome(get_gleam_id(url))
              /\ response.kind = "body"
              /\ RequiredFieldsFound(response.body)
        /\ IsSome(fetched) =>
              LET g == Unwrap(fetched)
                  b == response.body
              IN  /\ g.start_date = Unwrap(parse_u64(FieldText(b, STARTS_AT, COMMA_QUOT)))
                  /\ g.end_date = Unwrap(parse_u64(FieldText(b, ENDS_AT, COMMA_QUOT)))
                  /\ g.name = FieldText(b, NAME_KEY, QUOT)
                  /\ g.description
                        = clear_description(FieldText(b, DESCRIPTION_KEY, QUOT))
                  /\ g.gleam_id = Unwrap(get_gleam_id(url))
                  /\ g.entry_count =
                        IF EntryCountFound(b)
                        THEN parse_u64(FieldText(b, INIT_ENTRY_COUNT, CLOSE_PAREN))
                        ELSE None

\* C5 witness: a page whose initEntryCount content is not an integer gave a
\* record with entry_count absent.
C5_Witness ==
    /\ op = "fetch"
    /\ IsSome(fetched)
    /\ Occurs(response.body, INIT_ENTRY_COUNT)
    /\ Unwrap(fetched).entry_count = None
    /\ Unwrap(fetched).name # <<>>

----------------------------------------------------------------------------
(* Specification SpecFetchVec: Giveaway::fetch_vec on every list of up to *)
(* MaxUrls urls, each request getting any of four responses.  The fetch   *)
(* attempts and the sleeps are logged in events.                           *)

MaxUrls == 3
MaxCooldown == 1

FetchVecUrls ==
    {GLEAM_ROOT \o <<"2", "z", "A", "s", "X", "/", "b", "i", "t">>,
     GLEAM_ROOT \o <<"2", "z", "A", "s", "X">>}

FetchVecResponses ==
    {TransportError,
     Body(NAME_OK \o START_OK \o END_OK \o DESCRIPTION_OK \o ENTRY_OK),
     Body(NAME_OK \o START_OK \o END_OK \o DESCRIPTION_OK),
     Body(START_OK \o END_OK \o DESCRIPTION_OK \o ENTRY_OK)}

InitFetchVec ==
    /\ pc = "fetch"
    /\ urls \in SeqsUpTo(FetchVecUrls, MaxUrls)
    /\ cooldown \in 0..MaxCooldown
    /\ next_url = 0 /\ giveaways = <<>> /\ events = <<>>
    /\ IdleStr /\ IdleId /\ IdleGw /\ IdleLink /\ IdleCd

\* if let Some(giveaway) = Giveaway::fetch(url) { giveaways.push(giveaway) }
FetchAttempt ==
    /\ pc = "fetch"
    /\ next_url < Len(urls)
    /\ \E r \in FetchVecResponses :
        /\ response' = r
        /\ fetched' = fetch(urls[next_url + 1], r, now)
        /\ giveaways' = IF IsSome(fetched') THEN Append(giveaways, Unwrap(fetched'))
                        ELSE giveaways
    /\ events' = Append(events, "fetch")
    /\ pc' = "cooldown"
    /\ UNCHANGED <<urls, cooldown, next_url, self, now, op>>
    /\ UNCHANGED <<strVars, idVars, linkVars, cdVars>>

\* if urls.len() > 1 { sleep(Duration::from_secs(cooldown)); }
Sleep ==
    /\ pc = "cooldown"
    /\ Len(urls) > 1
    /\ events' = Append(events, "sleep")
    /\ now' = now + cooldown
    /\ next_url' = next_url + 1
    /\ pc' = "fetch"
    /\ UNCHANGED <<urls, cooldown, giveaways, self, response, fetched, op>>
    /\ UNCHANGED <<strVars, idVars, linkVars, cdVars>>

NoSleep ==
    /\ pc = "cooldown"
    /\ ~(Len(urls) > 1)
    /\ next_url' = next_url + 1
    /\ pc' = "fetch"
    /\ UNCHANGED <<urls, cooldown, giveaways, events>>
    /\ UNCHANGED <<strVars, idVars, gwVars, linkVars, cdVars>>

\* the for loop is over: giveaways is returned
FetchVecReturn ==
    /\ pc = "fetch"
    /\ next_url = Len(urls)
    /\ pc' = "done"
    /\ UNCHANGED <<strVars, idVars, gwVars, fvVars, linkVars, cdVars>>

NextFetchVec == FetchAttempt \/ Sleep \/ NoSleep \/ FetchVecReturn

SpecFetchVec == InitFetchVec /\ [][NextFetchVec]_vars

SleepCount == Cardinality({i \in 1..Len(events) : events[i] = "sleep"})

\* C6: in a batch of n > 1 urls every sleep comes after one fetch attempt
\* and before the next one, n - 1 sleeps in all and none after the last
\* fetch attempt; in a batch of one url there is no sleep.
C6_SleepOnlyBetweenFetches ==
    pc = "done" =>
        /\ \A i \in 1..Len(events) :
              events[i] = "sleep" =>
                  /\ i > 1 /\ events[i - 1] = "fetch"
                  /\ i < Len(events) /\ events[i + 1] = "fetch"
        /\ SleepCount = IF Len(urls) > 1 THEN Len(urls) - 1 ELSE 0

----------------------------------------------------------------------------
(* The two discoverers, one loop iteration at a time.  A call starts at   *)
(* "send" with the response the request will get, scans the body at       *)
(* "scan" and has returned at "done".  returned keeps, per discoverer,    *)
(* what the caller got when the page could not be read and what it got    *)
(* for a page that was read and holds no link.                            *)

HoldsNoLink(w, b) ==
    IF w = "resolve" THEN ~Occurs(b, GLEAM_ROOT)
    ELSE ~(Occurs(b, HREF_OPEN) /\ Occurs(RestAfter(b, HREF_OPEN), HREF_CLOSE))

Outcome(w, resp, value) ==
    IF resp.kind # "body" THEN {<<w, "could_not_look", value>>}
    ELSE IF HoldsNoLink(w, resp.body) THEN {<<w, "nothing_to_find", value>>}
    ELSE {}

\* send() is Err, or as_str() is Err: Vec::new() is returned
SendFails ==
    /\ pc = "send"
    /\ response.kind # "body"
    /\ ret' = Some(<<>>)
    /\ returned' = returned \cup Outcome(which, response, <<>>)
    /\ pc' = "done"
    /\ UNCHANGED <<which, body, rep, self, response, fetched, now, op>>
    /\ UNCHANGED <<strVars, idVars, fvVars, cdVars>>

\* if let Ok(mut body) = response.as_str() { let mut rep = Vec::new();
SendOk ==
    /\ pc = "send"
    /\ response.kind = "body"
    /\ body' = response.body
    /\ rep' = <<>>
    /\ pc' = "scan"
    /\ UNCHANGED <<which, ret, returned, self, response, fetched, now, op>>
    /\ UNCHANGED <<strVars, idVars, fvVars, cdVars>>

\* one iteration of the while loop of resolve
ResolveScan ==
    /\ pc = "scan" /\ which = "resolve"
    /\ get_all_after(body, GLEAM_ROOT) # <<>>
    /\ LET u == embedded_path(body) IN
        /\ body' = get_all_after(body, u)
        /\ rep' = push_unique(rep, capped_url(u))
    /\ UNCHANGED <<pc, which, ret, returned, self, response, fetched, now, op>>
    /\ UNCHANGED <<strVars, idVars, fvVars, cdVars>>

\* the while loop of resolve is over: final_rep is built and returned
ResolveReturn ==
    /\ pc = "scan" /\ which = "resolve"
    /\ get_all_after(body, GLEAM_ROOT) = <<>>
    /\ ret' = Some(final_rep(rep))
    /\ returned' = returned \cup Outcome(which, response, final_rep(rep))
    /\ pc' = "done"
    /\ UNCHANGED <<which, body, rep, self, response, fetched, now, op>>
    /\ UNCHANGED <<strVars, idVars, fvVars, cdVars>>

\* one iteration of the while let loop of search
SearchScan ==
    /\ pc = "scan" /\ which = "search"
    /\ IsSome(result_url(body))
    /\ rep' = Append(rep, Unwrap(result_url(body)))
    /\ body' = get_all_after(body, Unwrap(result_url(body)))
    /\ UNCHANGED <<pc, which, ret, returned, self, response, fetched, now, op>>
    /\ UNCHANGED <<strVars, idVars, fvVars, cdVars>>

\* the while let loop of search is over: rep is returned
SearchReturn ==
    /\ pc = "scan" /\ which = "search"
    /\ result_url(body) = None
    /\ ret' = Some(rep)
    /\ returned' = returned \cup Outcome(which, response, rep)
    /\ pc' = "done"
    /\ UNCHANGED <<which, body, rep, self, response, fetched, now, op>>
    /\ UNCHANGED <<strVars, idVars, fvVars, cdVars>>

----------------------------------------------------------------------------
(* Specification SpecResolve: one call of intermediary::resolve, on every *)
(* body made of up to MaxLinkPieces pieces.                               *)

MaxLinkPieces == 5

LinkPieces ==
    {GLEAM_ROOT,
     <<"a", "b", "c", "d", "e", "/", "x">>,
     <<"a", "b", "c", "d", "e", "/", "y">>,
     <<"c", "o", "m", "p", "e", "t", "i", "t", "i", "o", "n", "s", "/",
       "a", "b", "c", "d", "e", "-", "s">>,
     <<" ">>}

ResolveBodies == {Concat(ps) : ps \in SeqsUpTo(LinkPieces, MaxLinkPieces)}

InitResolve ==
    /\ pc = "send"
    /\ which = "resolve"
    /\ response \in {TransportError, NotUtf8} \cup {Body(b) : b \in ResolveBodies}
    /\ body = <<>> /\ rep = <<>> /\ ret = None /\ returned = {}
    /\ self = None /\ fetched = None /\ now = 0 /\ op = "none"
    /\ IdleStr /\ IdleId /\ IdleFv /\ IdleCd

NextResolve == SendFails \/ SendOk \/ ResolveScan \/ ResolveReturn

SpecResolve == InitResolve /\ [][NextResolve]_vars

\* C8: every iteration of the scan loop of resolve makes the remaining
\* body strictly shorter, also when the path captured after the marker is
\* empty, so the loop ends.
C8_ScanStrictlyAdvances ==
    [][(pc = "scan" /\ pc' = "scan") => Len(body') < Len(body)]_vars

\* C9: the list that resolve returns holds no url twice.
C9_NoDuplicateUrl ==
    (pc = "done" /\ which = "resolve") =>
        \A i, j \in 1..Len(Unwrap(ret)) :
            i # j => Unwrap(ret)[i] # Unwrap(ret)[j]

----------------------------------------------------------------------------
(* Specification SpecCaller: a caller that calls search and resolve again *)
(* and again, as the example of the crate documentation does, and looks   *)
(* at what it gets back.  The pages of search hold up to four result     *)
(* links, each with a url that is not empty: on an empty url search       *)
(* pushes to rep for ever, and never returns anything to the caller.      *)

RESULT_LINK ==
    HREF_OPEN \o <<"h", "t", "t", "p", ":", "/", "/", "y", ".", "t", "v">> \o HREF_CLOSE
OTHER_LINK ==
    HREF_OPEN \o <<"h", "t", "t", "p", ":", "/", "/", "z", ".", "t", "v">> \o HREF_CLOSE
EMBEDDED_LINK == GLEAM_ROOT \o <<"a", "b", "c", "d", "e", "/", "x">>

CallerResponses(w) ==
    {TransportError, NotUtf8, Body(<<>>), Body(<<"n", "o", " ", "l", "i", "n", "k">>)}
    \cup IF w = "search"
         THEN {Body(RESULT_LINK), Body(RESULT_LINK \o RESULT_LINK),
               Body(RESULT_LINK \o OTHER_LINK),
               Body(RESULT_LINK \o OTHER_LINK \o RESULT_LINK \o OTHER_LINK)}
         ELSE {Body(EMBEDDED_LINK), Body(EMBEDDED_LINK \o <<" ">> \o EMBEDDED_LINK),
               Body(GLEAM_ROOT)}

InitCaller ==
    /\ pc = "idle"
    /\ which = "none"
    /\ response = [kind |-> "none", body |-> <<>>]
    /\ body = <<>> /\ rep = <<>> /\ ret = None /\ returned = {}
    /\ self = None /\ fetched = None /\ now = 0 /\ op = "none"
    /\ IdleStr /\ IdleId /\ IdleFv /\ IdleCd

\* google::search(page) or intermediary::resolve(&link) is called
Call ==
    /\ pc \in {"idle", "done"}
    /\ \E w \in {"search", "resolve"} :
        /\ which' = w
        /\ response' \in CallerResponses(w)
    /\ body' = <<>> /\ rep' = <<>> /\ ret' = None
    /\ pc' = "send"
    /\ UNCHANGED <<returned, self, fetched, now, op>>
    /\ UNCHANGED <<strVars, idVars, fvVars, cdVars>>

NextCaller ==
    \/ Call \/ SendFails \/ SendOk
    \/ ResolveScan \/ ResolveReturn \/ SearchScan \/ SearchReturn

SpecCaller == InitCaller /\ [][NextCaller]_vars

\* C7: what a discoverer returns when the page could not be fetched or
\* decoded differs from what it returns for a page that was fetched and
\* holds no link.
C7_FailureDistinctFromNoLinks ==
    \A a, b \in returned :
        (a[1] = b[1] /\ a[2] = "could_not_look" /\ b[2] = "nothing_to_find")
            => a[3] # b[3]

=============================================================================
